---- MODULE Spec2Model ----
(***************************************************************************)
(* A model of the shelltoken package (github.com/sni/shelltoken): the      *)
(* quote-honouring tokenizer SplitQuotes, the env/argv splitter            *)
(* ExtractEnvFromArgv and the two profiles SplitLinux and SplitWindows.    *)
(*                                                                         *)
(* A Go string is modelled as the sequence of its code points (each a      *)
(* one-character TLA+ string, or the name "U+00A0" for the two-byte        *)
(* NO-BREAK SPACE); Utf8 gives the bytes of a code point, so that the byte *)
(* offsets that `range str` yields and the byte that str[pos+1] reads are  *)
(* computed as Go computes them.  A Go slice is modelled as a sequence     *)
(* plus a flag telling whether the slice is nil.                           *)
(***************************************************************************)
EXTENDS Integers, Sequences, FiniteSets, TLC

VARIABLES
    pc,       \* "idle", "loop" (inside the for-range of SplitQuotes), "returned" (SplitQuotes returned to a profile), "done", "appended" (the caller appended to env)
    api,      \* the exported function that was called
    input,    \* the argument of the call: a string, or a token list for ExtractEnvFromArgv
    str,      \* the string SplitQuotes scans
    sep,      \* the separator set SplitQuotes was given
    options,  \* the variadic option list SplitQuotes was given
    idx,      \* index (1-based) of the next code point the for-range yields
    pst,      \* the parseState of the running scan
    argv,     \* the local argv of the running scan
    rv,       \* the values the call returned
    peer      \* a second call that runs at the same time: a record of its own pc, api, ..., rv

\* the variables of the first call
call == <<pc, api, input, str, sep, options, idx, pst, argv, rv>>

vars == <<call, peer>>

----------------------------------------------------------------------------
(* Bounds of the model. *)

\* longest string handed to SplitQuotes directly
MaxLen == 3

\* longest command line handed to SplitLinux / SplitWindows
MaxLineLen == 4

\* longest token list handed to ExtractEnvFromArgv directly
MaxArgc == 3

\* longest string of quotes, blanks and backslashes handed to SplitQuotes
MaxQuotedLen == 4

\* longest string handed to each of two calls that run at the same time
MaxConcurrentLen == 2

----------------------------------------------------------------------------
(* Code points and their UTF-8 encoding. *)

BACKSLASH == "\\"

DQUOTE == "\""

SQUOTE == "'"

NBSP == "U+00A0"

\* U+0060 GRAVE ACCENT, the backtick
BACKTICK == "U+0060"

\* code points the model draws tokenizer inputs from
Alphabet == {BACKSLASH, DQUOTE, SQUOTE, " ", "a", "$", "|", NBSP}

\* code points the model draws profile inputs from
LineAlphabet == {BACKSLASH, DQUOTE, SQUOTE, " ", "a", "=", "$", NBSP}

\* the UTF-8 bytes of a code point
Utf8(char) == IF char = NBSP THEN <<"0xC2", "0xA0">> ELSE <<char>>

RECURSIVE Bytes(_)
\* the bytes of a string
Bytes(s) == IF s = <<>> THEN <<>> ELSE Utf8(Head(s)) \o Bytes(Tail(s))

\* the offset of the i-th code point counted in code points, not in bytes
CodePointPos(s, i) == i - 1

\* the byte offset at which the i-th (1-based) code point of s starts: the
\* `pos` of `for pos, char := range str`
BytePos(s, i) == Len(Bytes(SubSeq(s, 1, i - 1)))

\* unicode.IsSpace, which strings.TrimSpace trims: the ASCII white space,
\* U+000B, U+0085 and U+00A0
IsSpace(char) == char \in {" ", "\t", "\n", "U+000B", "\f", "\r", "U+0085", NBSP}

RECURSIVE TrimLeft(_)
TrimLeft(s) == IF s # <<>> /\ IsSpace(Head(s)) THEN TrimLeft(Tail(s)) ELSE s

RECURSIVE TrimRight(_)
TrimRight(s) ==
    IF s # <<>> /\ IsSpace(s[Len(s)]) THEN TrimRight(SubSeq(s, 1, Len(s) - 1)) ELSE s

\* strings.TrimSpace
TrimSpace(s) == TrimRight(TrimLeft(s))

----------------------------------------------------------------------------
(* Package constants. *)

Whitespace == {" ", "\t", "\n", "\r"}

DoubleQuoteShellCharacters == {"$", BACKTICK}

OutsideQuoteShellCharacters ==
    {"$", BACKTICK, "!", "&", "*", "(", ")", "~", "[", "]", "|", "{", "}", ";", "<", ">", "?"}

SplitNoOptions == 0

SplitKeepBackslashes == 2

SplitIgnoreBackslashes == 4

SplitKeepQuotes == 8

SplitKeepSeparator == 16

SplitStopOnShellCharacters == 32

SplitContinueOnShellCharacters == 64

SplitIgnoreShellCharacters == 128

RECURSIVE BitOr(_, _)
\* a | b on unsigned integers
BitOr(a, b) ==
    IF a = 0 THEN b
    ELSE IF b = 0 THEN a
    ELSE (IF a % 2 = 1 \/ b % 2 = 1 THEN 1 ELSE 0) + 2 * BitOr(a \div 2, b \div 2)

RECURSIVE BitAnd(_, _)
\* a & b on unsigned integers
BitAnd(a, b) ==
    IF a = 0 \/ b = 0 THEN 0
    ELSE (IF a % 2 = 1 /\ b % 2 = 1 THEN 1 ELSE 0) + 2 * BitAnd(a \div 2, b \div 2)

SplitKeepAll ==
    BitOr(BitOr(SplitKeepQuotes, SplitKeepBackslashes),
          BitOr(SplitKeepSeparator, SplitIgnoreShellCharacters))

----------------------------------------------------------------------------
(* parseState *)

RECURSIVE FoldOptions(_, _)
\* the loop of newParseState over the option list: OR the options together,
\* starting over at every SplitNoOptions
FoldOptions(opts, option) ==
    IF opts = <<>> THEN option
    ELSE FoldOptions(Tail(opts),
                     IF Head(opts) = SplitNoOptions THEN SplitNoOptions
                     ELSE BitOr(option, Head(opts)))

\* newParseState without Ignore as the policy when none is selected
newParseStateNoDefault(opts) ==
    LET option == FoldOptions(opts, SplitNoOptions)
    IN  [ token          |-> <<>>,
          hasToken       |-> FALSE,
          escaped        |-> FALSE,
          inSingleQuotes |-> FALSE,
          inDoubleQuotes |-> FALSE,
          firstShellPos  |-> -1,
          keepBackSlash  |-> BitAnd(option, SplitKeepBackslashes) > 0,
          keepQuote      |-> BitAnd(option, SplitKeepQuotes) > 0,
          keepSep        |-> BitAnd(option, SplitKeepSeparator) > 0,
          stopShell      |-> BitAnd(option, SplitStopOnShellCharacters) > 0,
          contShell      |-> BitAnd(option, SplitContinueOnShellCharacters) > 0,
          ignBackslashes |-> BitAnd(option, SplitIgnoreBackslashes) > 0,
          ignShell       |-> BitAnd(option, SplitIgnoreShellCharacters) > 0 ]

\* newParseState with Stop, not Ignore, as the policy when none is selected
newParseStateDefaultStop(opts) ==
    LET option == FoldOptions(opts, SplitNoOptions)
        cont == BitAnd(option, SplitContinueOnShellCharacters) > 0
        ign  == BitAnd(option, SplitIgnoreShellCharacters) > 0
        stop == BitAnd(option, SplitStopOnShellCharacters) > 0 \/ (~cont /\ ~ign)
    IN  [ token          |-> <<>>,
          hasToken       |-> FALSE,
          escaped        |-> FALSE,
          inSingleQuotes |-> FALSE,
          inDoubleQuotes |-> FALSE,
          firstShellPos  |-> -1,
          keepBackSlash  |-> BitAnd(option, SplitKeepBackslashes) > 0,
          keepQuote      |-> BitAnd(option, SplitKeepQuotes) > 0,
          keepSep        |-> BitAnd(option, SplitKeepSeparator) > 0,
          stopShell      |-> stop,
          contShell      |-> cont,
          ignBackslashes |-> BitAnd(option, SplitIgnoreBackslashes) > 0,
          ignShell       |-> ign ]

newParseState(opts) ==
    LET option == FoldOptions(opts, SplitNoOptions)
        stop == BitAnd(option, SplitStopOnShellCharacters) > 0
        cont == BitAnd(option, SplitContinueOnShellCharacters) > 0
    IN  [ token          |-> <<>>,
          hasToken       |-> FALSE,
          escaped        |-> FALSE,
          inSingleQuotes |-> FALSE,
          inDoubleQuotes |-> FALSE,
          firstShellPos  |-> -1,
          keepBackSlash  |-> BitAnd(option, SplitKeepBackslashes) > 0,
          keepQuote      |-> BitAnd(option, SplitKeepQuotes) > 0,
          keepSep        |-> BitAnd(option, SplitKeepSeparator) > 0,
          stopShell      |-> stop,
          contShell      |-> cont,
          ignBackslashes |-> BitAnd(option, SplitIgnoreBackslashes) > 0,
          ignShell       |-> (~stop /\ ~cont) \/ BitAnd(option, SplitIgnoreShellCharacters) > 0 ]

\* ShellPos with the class of the unquoted text used inside double quotes too
ShellPosOneClass(p, char, pos) ==
    IF char \in OutsideQuoteShellCharacters THEN pos
    ELSE IF char = BACKSLASH
         THEN IF ~p.keepBackSlash /\ ~p.ignBackslashes THEN pos ELSE p.firstShellPos
    ELSE p.firstShellPos

\* ShellPos without the case that records a backslash
ShellPosNoBackslash(p, char, pos) ==
    IF p.inDoubleQuotes
    THEN IF char \in DoubleQuoteShellCharacters THEN pos ELSE p.firstShellPos
    ELSE IF char \in OutsideQuoteShellCharacters THEN pos
    ELSE p.firstShellPos

\* the position addToken records for char, or the one already recorded
ShellPos(p, char, pos) ==
    IF p.inDoubleQuotes
    THEN IF char \in DoubleQuoteShellCharacters THEN pos ELSE p.firstShellPos
    ELSE IF char \in OutsideQuoteShellCharacters THEN pos
    ELSE IF char = BACKSLASH
         THEN IF ~p.keepBackSlash /\ ~p.ignBackslashes THEN pos ELSE p.firstShellPos
    ELSE p.firstShellPos

\* addToken recording every shell character, not the first one only
addTokenOverwrites(p, char, pos) ==
    LET q == [p EXCEPT !.hasToken = TRUE]
    IN  IF q.ignShell \/ q.inSingleQuotes
        THEN [q EXCEPT !.token = Append(q.token, char)]
        ELSE [q EXCEPT !.firstShellPos = ShellPos(q, char, pos),
                       !.token = Append(q.token, char)]

\* addToken looking for shell characters inside single quotes too
addTokenInSingleQuotes(p, char, pos) ==
    LET q == [p EXCEPT !.hasToken = TRUE]
    IN  IF q.ignShell \/ q.firstShellPos # -1
        THEN [q EXCEPT !.token = Append(q.token, char)]
        ELSE [q EXCEPT !.firstShellPos =
                           IF char \in OutsideQuoteShellCharacters THEN pos ELSE q.firstShellPos,
                       !.token = Append(q.token, char)]

\* addToken returning without writing the code point it records as a shell
\* character
addTokenDropsShell(p, char, pos) ==
    LET q == [p EXCEPT !.hasToken = TRUE]
    IN  IF q.ignShell \/ q.inSingleQuotes \/ q.firstShellPos # -1
        THEN [q EXCEPT !.token = Append(q.token, char)]
        ELSE IF ShellPos(q, char, pos) # q.firstShellPos
        THEN [q EXCEPT !.firstShellPos = ShellPos(q, char, pos)]
        ELSE [q EXCEPT !.token = Append(q.token, char)]

\* (p *parseState) addToken(char, pos)
addToken(p, char, pos) ==
    LET q == [p EXCEPT !.hasToken = TRUE]
    IN  IF q.ignShell \/ q.inSingleQuotes \/ q.firstShellPos # -1
        THEN [q EXCEPT !.token = Append(q.token, char)]
        ELSE [q EXCEPT !.firstShellPos = ShellPos(q, char, pos),
                       !.token = Append(q.token, char)]

----------------------------------------------------------------------------
(* Return values.  err is "nil", "UnbalancedQuotesError",                  *)
(* "ShellCharactersFoundError" (pos is its position) or "panic" (a Go      *)
(* run-time panic: the call does not return).                              *)

NoReturn ==
    [env |-> <<>>, envNil |-> TRUE, argv |-> <<>>, argvNil |-> TRUE, err |-> "none", pos |-> -1]

\* return argv, nil
ReturnArgv(tokens) == [NoReturn EXCEPT !.argv = tokens, !.argvNil = FALSE, !.err = "nil"]

\* return nil, &UnbalancedQuotesError{}
ReturnUnbalanced == [NoReturn EXCEPT !.err = "UnbalancedQuotesError"]

\* return nil, &ShellCharactersFoundError{pos: p}
ReturnShell(p) == [NoReturn EXCEPT !.err = "ShellCharactersFoundError", !.pos = p]

\* return argv, &ShellCharactersFoundError{pos: p}
ReturnArgvShell(tokens, p) ==
    [NoReturn EXCEPT !.argv = tokens, !.argvNil = FALSE,
                     !.err = "ShellCharactersFoundError", !.pos = p]

\* index out of range in str[pos+1]
Panic == [NoReturn EXCEPT !.err = "panic"]

----------------------------------------------------------------------------
(* SplitQuotes *)

\* BackslashCase in which a backslash outside quotes opens a token
BackslashCaseOpensToken(p, s, char, pos) ==
    LET q == IF ~p.ignBackslashes THEN [p EXCEPT !.escaped = TRUE] ELSE p
    IN  IF q.keepBackSlash \/ q.inSingleQuotes
        THEN [pst |-> addToken(q, char, pos), rv |-> NoReturn]
        ELSE IF q.inDoubleQuotes
        THEN IF Len(Bytes(s)) > pos
             THEN IF pos + 1 >= Len(Bytes(s))
                  THEN [pst |-> q, rv |-> Panic]
                  ELSE IF Bytes(s)[pos + 2] \in {DQUOTE, BACKSLASH}
                       THEN [pst |-> q, rv |-> NoReturn]
                       ELSE [pst |-> addToken(q, char, pos), rv |-> NoReturn]
             ELSE [pst |-> q, rv |-> NoReturn]
        ELSE [pst |-> [q EXCEPT !.hasToken = TRUE], rv |-> NoReturn]

\* BackslashCase taking a backslash inside single quotes as a plain code
\* point that escapes nothing
BackslashCaseSingleQuoteLiteral(p, s, char, pos) ==
    LET q == IF ~p.ignBackslashes /\ ~p.inSingleQuotes THEN [p EXCEPT !.escaped = TRUE] ELSE p
    IN  IF q.keepBackSlash \/ q.inSingleQuotes
        THEN [pst |-> addToken(q, char, pos), rv |-> NoReturn]
        ELSE IF q.inDoubleQuotes
        THEN IF Len(Bytes(s)) > pos
             THEN IF pos + 1 >= Len(Bytes(s))
                  THEN [pst |-> q, rv |-> Panic]
                  ELSE IF Bytes(s)[pos + 2] \in {DQUOTE, BACKSLASH}
                       THEN [pst |-> q, rv |-> NoReturn]
                       ELSE [pst |-> addToken(q, char, pos), rv |-> NoReturn]
             ELSE [pst |-> q, rv |-> NoReturn]
        ELSE [pst |-> q, rv |-> NoReturn]

\* BackslashCase writing the backslash to the token outside quotes too
BackslashCaseKeepsOutside(p, s, char, pos) ==
    LET q == IF ~p.ignBackslashes THEN [p EXCEPT !.escaped = TRUE] ELSE p
    IN  IF q.keepBackSlash \/ q.inSingleQuotes \/ ~q.inDoubleQuotes
        THEN [pst |-> addToken(q, char, pos), rv |-> NoReturn]
        ELSE IF pos + 1 >= Len(Bytes(s))
             THEN [pst |-> q, rv |-> Panic]
             ELSE IF Bytes(s)[pos + 2] \in {DQUOTE, BACKSLASH}
                  THEN [pst |-> q, rv |-> NoReturn]
                  ELSE [pst |-> addToken(q, char, pos), rv |-> NoReturn]

\* BackslashCase with the lookahead inside double quotes testing for a double
\* quote only
BackslashCaseQuoteOnly(p, s, char, pos) ==
    LET q == IF ~p.ignBackslashes THEN [p EXCEPT !.escaped = TRUE] ELSE p
    IN  IF q.keepBackSlash \/ q.inSingleQuotes
        THEN [pst |-> addToken(q, char, pos), rv |-> NoReturn]
        ELSE IF q.inDoubleQuotes
        THEN IF pos + 1 >= Len(Bytes(s))
             THEN [pst |-> q, rv |-> Panic]
             ELSE IF Bytes(s)[pos + 2] = DQUOTE
                  THEN [pst |-> q, rv |-> NoReturn]
                  ELSE [pst |-> addToken(q, char, pos), rv |-> NoReturn]
        ELSE [pst |-> q, rv |-> NoReturn]

\* case char == '\\' of the loop's switch; gives the parse state, or Panic
\* when str[pos+1] lies behind the end of str
BackslashCase(p, s, char, pos) ==
    LET q == IF ~p.ignBackslashes THEN [p EXCEPT !.escaped = TRUE] ELSE p
    IN  IF q.keepBackSlash \/ q.inSingleQuotes
        THEN [pst |-> addToken(q, char, pos), rv |-> NoReturn]
        ELSE IF q.inDoubleQuotes
        THEN IF Len(Bytes(s)) > pos
             THEN IF pos + 1 >= Len(Bytes(s))
                  THEN [pst |-> q, rv |-> Panic]
                  ELSE IF Bytes(s)[pos + 2] \in {DQUOTE, BACKSLASH}
                       THEN [pst |-> q, rv |-> NoReturn]
                       ELSE [pst |-> addToken(q, char, pos), rv |-> NoReturn]
             ELSE [pst |-> q, rv |-> NoReturn]
        ELSE [pst |-> q, rv |-> NoReturn]

\* DoubleQuoteCase writing a double quote inside single quotes with a
\* backslash in front of it
DoubleQuoteCaseEscapesLiteral(p, char, pos) ==
    LET q == [p EXCEPT !.hasToken = TRUE]
    IN  IF ~q.inSingleQuotes
        THEN LET r == [q EXCEPT !.inDoubleQuotes = ~q.inDoubleQuotes]
             IN  IF r.keepQuote THEN addToken(r, char, pos) ELSE r
        ELSE addToken(addToken(q, BACKSLASH, pos), char, pos)

\* DoubleQuoteCase beginning a new token at every double quote that toggles
\* the mode
DoubleQuoteCaseResetsToken(p, char, pos) ==
    LET q == [p EXCEPT !.hasToken = TRUE]
    IN  IF ~q.inSingleQuotes
        THEN LET r == [q EXCEPT !.inDoubleQuotes = ~q.inDoubleQuotes, !.token = <<>>]
             IN  IF r.keepQuote THEN addToken(r, char, pos) ELSE r
        ELSE addToken(q, char, pos)

\* DoubleQuoteCase toggling the double-quote mode inside single quotes too
DoubleQuoteCaseAlwaysToggles(p, char, pos) ==
    LET q == [p EXCEPT !.hasToken = TRUE]
        r == [q EXCEPT !.inDoubleQuotes = ~q.inDoubleQuotes]
    IN  IF r.keepQuote THEN addToken(r, char, pos) ELSE r

\* case char == '"'
DoubleQuoteCase(p, char, pos) ==
    LET q == [p EXCEPT !.hasToken = TRUE]
    IN  IF ~q.inSingleQuotes
        THEN LET r == [q EXCEPT !.inDoubleQuotes = ~q.inDoubleQuotes]
             IN  IF r.keepQuote THEN addToken(r, char, pos) ELSE r
        ELSE addToken(q, char, pos)

\* SingleQuoteCase toggling the single-quote mode inside double quotes too
SingleQuoteCaseAlwaysToggles(p, char, pos) ==
    LET q == [p EXCEPT !.hasToken = TRUE]
        r == [q EXCEPT !.inSingleQuotes = ~q.inSingleQuotes]
    IN  IF r.keepQuote THEN addToken(r, char, pos) ELSE r

\* case char == '\''
SingleQuoteCase(p, char, pos) ==
    LET q == [p EXCEPT !.hasToken = TRUE]
    IN  IF ~q.inDoubleQuotes
        THEN LET r == [q EXCEPT !.inSingleQuotes = ~q.inSingleQuotes]
             IN  IF r.keepQuote THEN addToken(r, char, pos) ELSE r
        ELSE addToken(q, char, pos)

\* SeparatorCase emitting a kept separator before the token that was open
SeparatorCaseSeparatorFirst(p, tokens, char, pos) ==
    IF p.inSingleQuotes \/ p.inDoubleQuotes
    THEN [pst |-> addToken(p, char, pos), argv |-> tokens]
    ELSE IF p.keepSep
    THEN IF p.hasToken
         THEN [pst  |-> [p EXCEPT !.token = <<>>, !.hasToken = FALSE],
               argv |-> Append(Append(tokens, <<char>>), p.token)]
         ELSE [pst |-> p, argv |-> Append(tokens, <<char>>)]
    ELSE IF p.hasToken
    THEN [pst  |-> [p EXCEPT !.token = <<>>, !.hasToken = FALSE],
          argv |-> Append(tokens, p.token)]
    ELSE [pst |-> p, argv |-> tokens]

\* SeparatorCase without the case that keeps the separator as a token
SeparatorCaseDropsSeparator(p, tokens, char, pos) ==
    IF p.inSingleQuotes \/ p.inDoubleQuotes
    THEN [pst |-> addToken(p, char, pos), argv |-> tokens]
    ELSE IF p.hasToken
    THEN [pst  |-> [p EXCEPT !.token = <<>>, !.hasToken = FALSE],
          argv |-> Append(tokens, p.token)]
    ELSE [pst |-> p, argv |-> tokens]

\* case strings.ContainsRune(sep, char); gives the parse state and argv
SeparatorCase(p, tokens, char, pos) ==
    IF p.inSingleQuotes \/ p.inDoubleQuotes
    THEN [pst |-> addToken(p, char, pos), argv |-> tokens]
    ELSE IF p.keepSep
    THEN IF p.hasToken
         THEN [pst  |-> [p EXCEPT !.token = <<>>, !.hasToken = FALSE],
               argv |-> Append(Append(tokens, p.token), <<char>>)]
         ELSE [pst |-> p, argv |-> Append(tokens, <<char>>)]
    ELSE IF p.hasToken
    THEN [pst  |-> [p EXCEPT !.token = <<>>, !.hasToken = FALSE],
          argv |-> Append(tokens, p.token)]
    ELSE [pst |-> p, argv |-> tokens]

\* LoopBody writing an escaped code point to the token without looking for
\* a shell character in it
LoopBodyEscapedUnexamined(p, tokens, s, seps, i) ==
    LET char == s[i]
        pos  == BytePos(s, i)
    IN  IF p.stopShell /\ p.firstShellPos # -1
        THEN [pst |-> p, argv |-> tokens, rv |-> ReturnShell(p.firstShellPos)]
        ELSE IF p.escaped
        THEN [pst |-> [p EXCEPT !.escaped = FALSE, !.hasToken = TRUE,
                                 !.token = Append(p.token, char)],
              argv |-> tokens, rv |-> NoReturn]
        ELSE IF char = BACKSLASH
        THEN LET b == BackslashCase(p, s, char, pos)
             IN  [pst |-> b.pst, argv |-> tokens, rv |-> b.rv]
        ELSE IF char = DQUOTE
        THEN [pst |-> DoubleQuoteCase(p, char, pos), argv |-> tokens, rv |-> NoReturn]
        ELSE IF char = SQUOTE
        THEN [pst |-> SingleQuoteCase(p, char, pos), argv |-> tokens, rv |-> NoReturn]
        ELSE IF char \in seps
        THEN LET c == SeparatorCase(p, tokens, char, pos)
             IN  [pst |-> c.pst, argv |-> c.argv, rv |-> NoReturn]
        ELSE [pst |-> addToken(p, char, pos), argv |-> tokens, rv |-> NoReturn]

\* one iteration of `for pos, char := range str`, at the i-th code point of
\* s; rv is NoReturn unless the iteration leaves the function
LoopBody(p, tokens, s, seps, i) ==
    LET char == s[i]
        pos  == BytePos(s, i)
    IN  IF p.stopShell /\ p.firstShellPos # -1
        THEN [pst |-> p, argv |-> tokens, rv |-> ReturnShell(p.firstShellPos)]
        ELSE IF p.escaped
        THEN [pst |-> addToken([p EXCEPT !.escaped = FALSE], char, pos),
              argv |-> tokens, rv |-> NoReturn]
        ELSE IF char = BACKSLASH
        THEN LET b == BackslashCase(p, s, char, pos)
             IN  [pst |-> b.pst, argv |-> tokens, rv |-> b.rv]
        ELSE IF char = DQUOTE
        THEN [pst |-> DoubleQuoteCase(p, char, pos), argv |-> tokens, rv |-> NoReturn]
        ELSE IF char = SQUOTE
        THEN [pst |-> SingleQuoteCase(p, char, pos), argv |-> tokens, rv |-> NoReturn]
        ELSE IF char \in seps
        THEN LET c == SeparatorCase(p, tokens, char, pos)
             IN  [pst |-> c.pst, argv |-> c.argv, rv |-> NoReturn]
        ELSE [pst |-> addToken(p, char, pos), argv |-> tokens, rv |-> NoReturn]

\* AfterLoop appending the last token only if it is not empty
AfterLoopDropsEmptyToken(p, tokens) ==
    IF p.stopShell /\ p.firstShellPos # -1
    THEN ReturnShell(p.firstShellPos)
    ELSE LET all == IF p.hasToken /\ p.token # <<>> THEN Append(tokens, p.token) ELSE tokens
         IN  IF p.inSingleQuotes \/ p.inDoubleQuotes
             THEN ReturnUnbalanced
             ELSE IF p.contShell /\ p.firstShellPos # -1
             THEN ReturnArgvShell(all, p.firstShellPos)
             ELSE ReturnArgv(all)

\* AfterLoop without the check for a shell character found at the last code
\* point
AfterLoopNoStopCheck(p, tokens) ==
    LET all == IF p.hasToken THEN Append(tokens, p.token) ELSE tokens
    IN  IF p.inSingleQuotes \/ p.inDoubleQuotes
        THEN ReturnUnbalanced
        ELSE IF p.contShell /\ p.firstShellPos # -1
        THEN ReturnArgvShell(all, p.firstShellPos)
        ELSE ReturnArgv(all)

\* AfterLoop without the case that reports under Continue
AfterLoopNoContinueCase(p, tokens) ==
    IF p.stopShell /\ p.firstShellPos # -1
    THEN ReturnShell(p.firstShellPos)
    ELSE LET all == IF p.hasToken THEN Append(tokens, p.token) ELSE tokens
         IN  IF p.inSingleQuotes \/ p.inDoubleQuotes
             THEN ReturnUnbalanced
             ELSE ReturnArgv(all)

\* AfterLoop with the unbalanced-quotes case looking at single quotes only
AfterLoopSingleOnly(p, tokens) ==
    IF p.stopShell /\ p.firstShellPos # -1
    THEN ReturnShell(p.firstShellPos)
    ELSE LET all == IF p.hasToken THEN Append(tokens, p.token) ELSE tokens
         IN  IF p.inSingleQuotes
             THEN ReturnUnbalanced
             ELSE IF p.contShell /\ p.firstShellPos # -1
             THEN ReturnArgvShell(all, p.firstShellPos)
             ELSE ReturnArgv(all)

\* the code of SplitQuotes behind the loop
AfterLoop(p, tokens) ==
    IF p.stopShell /\ p.firstShellPos # -1
    THEN ReturnShell(p.firstShellPos)
    ELSE LET all == IF p.hasToken THEN Append(tokens, p.token) ELSE tokens
         IN  IF p.inSingleQuotes \/ p.inDoubleQuotes
             THEN ReturnUnbalanced
             ELSE IF p.contShell /\ p.firstShellPos # -1
             THEN ReturnArgvShell(all, p.firstShellPos)
             ELSE ReturnArgv(all)

RECURSIVE ScanFrom(_, _, _, _, _)
\* the loop of SplitQuotes from the i-th code point on, and the code behind it
ScanFrom(p, tokens, s, seps, i) ==
    IF i > Len(s)
    THEN AfterLoop(p, tokens)
    ELSE LET n == LoopBody(p, tokens, s, seps, i)
         IN  IF n.rv = NoReturn THEN ScanFrom(n.pst, n.argv, s, seps, i + 1) ELSE n.rv

\* SplitQuotes(str, sep, options...) as a function of its arguments
SplitQuotes(s, seps, opts) == ScanFrom(newParseState(opts), <<>>, s, seps, 1)

----------------------------------------------------------------------------
(* ExtractEnvFromArgv and the profiles *)

\* strings.Contains(token, "=")
ContainsEq(token) == \E k \in 1..Len(token) : token[k] = "="

\* ExtractFrom returning every token as args and none as envs
ExtractFromAllArgs(tokens, i) ==
    [envs |-> <<>>, envsNil |-> FALSE, args |-> tokens, argsNil |-> FALSE]

RECURSIVE ExtractFromSkipsCommand(_, _)
\* ExtractFrom returning as args the tokens behind the first one without '='
ExtractFromSkipsCommand(tokens, i) ==
    IF i > Len(tokens)
    THEN [envs |-> <<>>, envsNil |-> TRUE, args |-> <<>>, argsNil |-> TRUE]
    ELSE IF ~ContainsEq(tokens[i])
    THEN [envs |-> SubSeq(tokens, 1, i - 1), envsNil |-> FALSE,
          args |-> SubSeq(tokens, i + 1, Len(tokens)), argsNil |-> FALSE]
    ELSE ExtractFromSkipsCommand(tokens, i + 1)

RECURSIVE ExtractFrom(_, _)
\* the loop of ExtractEnvFromArgv from index i (1-based) on, and the bare
\* return behind it, which returns the named results envs, args unset
ExtractFrom(tokens, i) ==
    IF i > Len(tokens)
    THEN [envs |-> <<>>, envsNil |-> TRUE, args |-> <<>>, argsNil |-> TRUE]
    ELSE IF ~ContainsEq(tokens[i])
    THEN [envs |-> SubSeq(tokens, 1, i - 1), envsNil |-> FALSE,
          args |-> SubSeq(tokens, i, Len(tokens)), argsNil |-> FALSE]
    ELSE ExtractFrom(tokens, i + 1)

ExtractEnvFromArgv(tokens) == ExtractFrom(tokens, 1)

\* ProfileTail without the padding of an empty argv
ProfileTailNoPadding(r) ==
    IF r.err # "nil"
    THEN [NoReturn EXCEPT !.err = r.err, !.pos = r.pos]
    ELSE LET e == ExtractEnvFromArgv(r.argv)
         IN  [env |-> e.envs, envNil |-> e.envsNil, argv |-> e.args, argvNil |-> e.argsNil,
              err |-> "nil", pos |-> -1]

\* SplitLinux and SplitWindows behind their call of SplitQuotes
ProfileTail(r) ==
    IF r.err # "nil"
    THEN [NoReturn EXCEPT !.err = r.err, !.pos = r.pos]
    ELSE LET padded == IF Len(r.argv) = 0 THEN Append(r.argv, <<>>) ELSE r.argv
             e == ExtractEnvFromArgv(padded)
         IN  [env |-> e.envs, envNil |-> e.envsNil, argv |-> e.args, argvNil |-> e.argsNil,
              err |-> "nil", pos |-> -1]

\* the backing array of the lists ExtractEnvFromArgv returns: envs is
\* argv[0:i] and args is argv[i:], two slices of the array of argv
BackingArray(r) == r.env \o r.argv

\* env = append(env, x) by the caller that holds the results r.  A nil env
\* (the bare return) has capacity 0 and append allocates a new array.  The
\* env argv[0:i] has the capacity of argv, which is larger than its length i
\* because argv[i] exists: append writes x into the backing array at index i,
\* the first element of args, and extends env over it.
AppendToEnv(r, x) ==
    IF r.envNil
    THEN [r EXCEPT !.env = <<x>>, !.envNil = FALSE]
    ELSE LET i == Len(r.env)
             array == [BackingArray(r) EXCEPT ![i + 1] = x]
         IN  [r EXCEPT !.env = SubSeq(array, 1, i + 1),
                       !.argv = SubSeq(array, i + 1, Len(array))]

LinuxOptions == <<SplitStopOnShellCharacters>>

windowsOptions ==
    <<BitOr(BitOr(SplitKeepBackslashes, SplitIgnoreBackslashes), SplitStopOnShellCharacters)>>

\* SplitLinux(str) as a function of its argument
SplitLinux(s) == ProfileTail(SplitQuotes(TrimSpace(s), Whitespace, LinuxOptions))

\* SplitWindows(str) as a function of its argument
SplitWindows(s) == ProfileTail(SplitQuotes(TrimSpace(s), Whitespace, windowsOptions))

----------------------------------------------------------------------------
(* The calls the model makes. *)

\* all strings over the code points A of at most n code points
Strings(A, n) == UNION {[1..k -> A] : k \in 0..n}

\* the separator sets of the package's tests: Whitespace and `;|`
SepSets == {Whitespace, {";", "|"}}

\* every bitmask of the seven option bits, passed as one option, and the
\* empty option list
OptionLists == {<<>>} \cup {<<2 * m>> : m \in 0..127}

\* the option bits that select a shell-character policy that reports
ReportingBits == BitOr(SplitStopOnShellCharacters, SplitContinueOnShellCharacters)

\* the option lists that select neither Stop nor Continue
IgnoreOptionLists ==
    {opts \in OptionLists : BitAnd(FoldOptions(opts, SplitNoOptions), ReportingBits) = 0}

\* the option lists that select Stop or Continue
ShellOptionLists == OptionLists \ IgnoreOptionLists

\* tokens and token lists handed to ExtractEnvFromArgv
Tokens == Strings({"a", "="}, 2)

TokenLists == Strings(Tokens, MaxArgc)

\* a call that has not begun
NoCall ==
    [pc |-> "idle", api |-> "none", input |-> <<>>, str |-> <<>>, sep |-> {},
     options |-> <<>>, idx |-> 0, pst |-> newParseState(<<>>), argv |-> <<>>, rv |-> NoReturn]

Init ==
    /\ pc = "idle"
    /\ api = "none"
    /\ input = <<>>
    /\ str = <<>>
    /\ sep = {}
    /\ options = <<>>
    /\ idx = 0
    /\ pst = newParseState(<<>>)
    /\ argv = <<>>
    /\ rv = NoReturn
    /\ peer = NoCall

\* SplitQuotes is called with a string of S, a separator set of SS and an
\* option list of OL, and builds its parse state and its empty argv
CallSplitQuotesWith(S, SS, OL) ==
    /\ pc = "idle"
    /\ \E s \in S, seps \in SS, opts \in OL :
          /\ api' = "SplitQuotes"
          /\ input' = s
          /\ str' = s
          /\ sep' = seps
          /\ options' = opts
          /\ pst' = newParseState(opts)
    /\ pc' = "loop"
    /\ idx' = 1
    /\ argv' = <<>>
    /\ rv' = NoReturn
    /\ UNCHANGED peer

\* SplitQuotes is called with any separator set and any options
CallSplitQuotes == CallSplitQuotesWith(Strings(Alphabet, MaxLen), SepSets, OptionLists)

\* SplitQuotes is called with options that select neither Stop nor Continue
CallSplitQuotesIgnore ==
    CallSplitQuotesWith(Strings(Alphabet, MaxLen), SepSets, IgnoreOptionLists)

\* SplitQuotes is called with whitespace separators and options that select
\* Stop or Continue
CallSplitQuotesShell ==
    CallSplitQuotesWith(Strings(Alphabet, MaxLen), {Whitespace}, ShellOptionLists)

\* code points of the two separator sets
SeparatorAlphabet == {" ", ";", "|"}

\* SplitQuotes is called with a string of separator characters and any
\* options
CallSplitQuotesSeparators ==
    CallSplitQuotesWith(Strings(SeparatorAlphabet, MaxLen), SepSets, OptionLists)

\* code points of quoted texts: the quotes, a separator, a letter and the
\* backslash
QuotedAlphabet == {DQUOTE, SQUOTE, " ", "a", BACKSLASH}

\* SplitQuotes is called with a string of quotes, blanks, letters and
\* backslashes and options that select neither Stop nor Continue
CallSplitQuotesQuoted ==
    CallSplitQuotesWith(Strings(QuotedAlphabet, MaxQuotedLen), SepSets, IgnoreOptionLists)

\* SplitLinux is called and calls SplitQuotes
CallSplitLinux ==
    /\ pc = "idle"
    /\ \E s \in Strings(LineAlphabet, MaxLineLen) :
          /\ input' = s
          /\ str' = TrimSpace(s)
    /\ api' = "SplitLinux"
    /\ sep' = Whitespace
    /\ options' = LinuxOptions
    /\ pst' = newParseState(LinuxOptions)
    /\ pc' = "loop"
    /\ idx' = 1
    /\ argv' = <<>>
    /\ rv' = NoReturn
    /\ UNCHANGED peer

\* SplitWindows is called and calls SplitQuotes
CallSplitWindows ==
    /\ pc = "idle"
    /\ \E s \in Strings(LineAlphabet, MaxLineLen) :
          /\ input' = s
          /\ str' = TrimSpace(s)
    /\ api' = "SplitWindows"
    /\ sep' = Whitespace
    /\ options' = windowsOptions
    /\ pst' = newParseState(windowsOptions)
    /\ pc' = "loop"
    /\ idx' = 1
    /\ argv' = <<>>
    /\ rv' = NoReturn
    /\ UNCHANGED peer

\* where a return of SplitQuotes leads: to the caller, or to the profile
\* that called it; a panic unwinds the profile too
AfterReturn(r) ==
    IF api = "SplitQuotes" \/ r.err = "panic" THEN "done" ELSE "returned"

\* one iteration of the loop of SplitQuotes: it goes on to the next code
\* point, or leaves the function
Iterate ==
    /\ pc = "loop"
    /\ idx <= Len(str)
    /\ LET n == LoopBody(pst, argv, str, sep, idx)
       IN  /\ pst' = n.pst
           /\ argv' = n.argv
           /\ rv' = n.rv
           /\ pc' = IF n.rv = NoReturn THEN "loop" ELSE AfterReturn(n.rv)
           /\ idx' = IF n.rv = NoReturn THEN idx + 1 ELSE idx
    /\ UNCHANGED <<api, input, str, sep, options, peer>>

\* the loop of SplitQuotes is over: SplitQuotes returns
LoopExit ==
    /\ pc = "loop"
    /\ idx > Len(str)
    /\ rv' = AfterLoop(pst, argv)
    /\ pc' = AfterReturn(rv')
    /\ UNCHANGED <<api, input, str, sep, options, idx, pst, argv, peer>>

\* SplitLinux or SplitWindows goes on behind its call of SplitQuotes
ProfileReturn ==
    /\ pc = "returned"
    /\ rv' = ProfileTail(rv)
    /\ pc' = "done"
    /\ UNCHANGED <<api, input, str, sep, options, idx, pst, argv, peer>>

\* ExtractEnvFromArgv is called and returns
CallExtractEnvFromArgv ==
    /\ pc = "idle"
    /\ \E tokens \in TokenLists :
          /\ input' = tokens
          /\ LET e == ExtractEnvFromArgv(tokens)
             IN  rv' = [env |-> e.envs, envNil |-> e.envsNil,
                        argv |-> e.args, argvNil |-> e.argsNil,
                        err |-> "nil", pos |-> -1]
    /\ api' = "ExtractEnvFromArgv"
    /\ pc' = "done"
    /\ UNCHANGED <<str, sep, options, idx, pst, argv, peer>>

\* the caller of SplitLinux, SplitWindows or ExtractEnvFromArgv appends a
\* token to the env list it was handed
CallerAppendsToEnv ==
    /\ pc = "done"
    /\ api \in {"SplitLinux", "SplitWindows", "ExtractEnvFromArgv"}
    /\ rv.err = "nil"
    /\ \E x \in Tokens : rv' = AppendToEnv(rv, x)
    /\ pc' = "appended"
    /\ UNCHANGED <<api, input, str, sep, options, idx, pst, argv, peer>>

\* code points of the strings of two calls that run at the same time
ConcurrentAlphabet == {DQUOTE, BACKSLASH, "$", " "}

\* SplitQuotes is called, under the Ignore or the Continue policy, while a
\* second call may be running
CallSplitQuotesConcurrent ==
    CallSplitQuotesWith(Strings(ConcurrentAlphabet, MaxConcurrentLen), {Whitespace},
                        {<<>>, <<SplitContinueOnShellCharacters>>})

\* ParseStateOf for a parse state kept where both calls reach it
ParseStateSharedWithCall(own, foreign) == foreign

\* the parse state a step of a call works on, given the call's own and the
\* one of the call running beside it: pst is a local of SplitQuotes
ParseStateOf(own, foreign) == own

\* the second call is a call of SplitLinux, which calls SplitQuotes
PeerCallSplitLinux ==
    /\ peer.pc = "idle"
    /\ \E s \in Strings(ConcurrentAlphabet, MaxConcurrentLen) :
          peer' = [pc |-> "loop", api |-> "SplitLinux", input |-> s, str |-> TrimSpace(s),
                   sep |-> Whitespace, options |-> LinuxOptions, idx |-> 1,
                   pst |-> newParseState(LinuxOptions), argv |-> <<>>, rv |-> NoReturn]
    /\ UNCHANGED call

\* one iteration of the loop of SplitQuotes in the second call
PeerIterate ==
    /\ peer.pc = "loop"
    /\ peer.idx <= Len(peer.str)
    /\ LET n == LoopBody(ParseStateOf(peer.pst, pst), peer.argv, peer.str, peer.sep, peer.idx)
       IN  peer' = [peer EXCEPT !.pst = n.pst,
                                !.argv = n.argv,
                                !.rv = n.rv,
                                !.pc = IF n.rv = NoReturn THEN "loop"
                                       ELSE IF n.rv.err = "panic" THEN "done" ELSE "returned",
                                !.idx = IF n.rv = NoReturn THEN peer.idx + 1 ELSE peer.idx]
    /\ UNCHANGED call

\* the loop of SplitQuotes is over in the second call: SplitQuotes returns
PeerLoopExit ==
    /\ peer.pc = "loop"
    /\ peer.idx > Len(peer.str)
    /\ peer' = [peer EXCEPT !.rv = AfterLoop(ParseStateOf(peer.pst, pst), peer.argv),
                            !.pc = "returned"]
    /\ UNCHANGED call

\* SplitLinux goes on behind its call of SplitQuotes in the second call
PeerProfileReturn ==
    /\ peer.pc = "returned"
    /\ peer' = [peer EXCEPT !.rv = ProfileTail(peer.rv), !.pc = "done"]
    /\ UNCHANGED call

Next ==
    \/ CallSplitQuotes
    \/ CallSplitLinux
    \/ CallSplitWindows
    \/ CallExtractEnvFromArgv
    \/ Iterate
    \/ LoopExit
    \/ ProfileReturn

\* every call of the package
Spec == Init /\ [][Next]_vars

NextProfiles ==
    \/ CallSplitLinux
    \/ CallSplitWindows
    \/ CallExtractEnvFromArgv
    \/ Iterate
    \/ LoopExit
    \/ ProfileReturn

\* the calls of SplitLinux, SplitWindows and ExtractEnvFromArgv
SpecProfiles == Init /\ [][NextProfiles]_vars

NextAppend ==
    \/ CallSplitLinux
    \/ CallSplitWindows
    \/ CallExtractEnvFromArgv
    \/ Iterate
    \/ LoopExit
    \/ ProfileReturn
    \/ CallerAppendsToEnv

\* the calls of SplitLinux, SplitWindows and ExtractEnvFromArgv, and what
\* the caller does with the lists it was handed
SpecAppend == Init /\ [][NextAppend]_vars

NextIgnore ==
    \/ CallSplitQuotesIgnore
    \/ CallSplitLinux
    \/ CallSplitWindows
    \/ Iterate
    \/ LoopExit
    \/ ProfileReturn

\* the calls of SplitQuotes that select neither Stop nor Continue, and the
\* calls of the profiles
SpecIgnore == Init /\ [][NextIgnore]_vars

NextShell ==
    \/ CallSplitQuotesShell
    \/ Iterate
    \/ LoopExit

\* the calls of SplitQuotes that select Stop or Continue
SpecShell == Init /\ [][NextShell]_vars

NextSeparators ==
    \/ CallSplitQuotesSeparators
    \/ CallSplitLinux
    \/ CallSplitWindows
    \/ Iterate
    \/ LoopExit
    \/ ProfileReturn

\* the calls of SplitQuotes with strings of separator characters, under
\* every option, and the calls of the profiles
SpecSeparators == Init /\ [][NextSeparators]_vars

NextQuoted ==
    \/ CallSplitQuotesQuoted
    \/ Iterate
    \/ LoopExit

\* the calls of SplitQuotes with strings of quotes, blanks, letters and
\* backslashes, under the Ignore policy
SpecQuoted == Init /\ [][NextQuoted]_vars

NextConcurrent ==
    \/ CallSplitQuotesConcurrent
    \/ Iterate
    \/ LoopExit
    \/ PeerCallSplitLinux
    \/ PeerIterate
    \/ PeerLoopExit
    \/ PeerProfileReturn

\* a call of SplitQuotes and a call of SplitLinux whose steps interleave
SpecConcurrent == Init /\ [][NextConcurrent]_vars

----------------------------------------------------------------------------
(* What the claims speak of. *)

\* the option value the call resolved its option list to
Option == FoldOptions(options, SplitNoOptions)

\* the call selected the option flag
Selected(flag) == BitAnd(Option, flag) > 0

Profiles == {"SplitLinux", "SplitWindows"}

Done == pc = "done"

\* the loop of SplitQuotes ran over the whole string
ScanReachedEnd == idx > Len(str)

\* a quote is open in the parse state
InQuotes == pst.inSingleQuotes \/ pst.inDoubleQuotes

\* the string holds the code point
Holds(s, char) == \E k \in 1..Len(s) : s[k] = char

\* the policy is Stop: Stop is selected and shell characters are not ignored
StopPolicy ==
    Selected(SplitStopOnShellCharacters) /\ ~Selected(SplitIgnoreShellCharacters)

\* the policy is Continue: Continue is selected, Stop is not, and shell
\* characters are not ignored
ContPolicy ==
    /\ Selected(SplitContinueOnShellCharacters)
    /\ ~Selected(SplitStopOnShellCharacters)
    /\ ~Selected(SplitIgnoreShellCharacters)

\* the running step is an iteration of the loop, at the code point str[idx]
Scanning == pc = "loop" /\ idx <= Len(str)

\* the option value with the Ignore policy in place of Stop and Continue
WithIgnorePolicy(option) ==
    BitOr(option - BitAnd(option, ReportingBits), SplitIgnoreShellCharacters)

\* the running step is an iteration of the loop that gets to its switch: the
\* check at the top of the loop does not return
Examines == Scanning /\ ~(pst.stopShell /\ pst.firstShellPos # -1)

\* the iteration takes the code point str[idx] as a backslash: it is not
\* escaped itself
AtBackslash == Examines /\ ~pst.escaped /\ str[idx] = BACKSLASH

\* the iteration takes the code point str[idx] as the one a backslash escaped
AtEscaped == Examines /\ pst.escaped

\* the step appends the code point str[idx] to the open token and changes
\* neither the quote modes nor the completed tokens
AppendsVerbatim ==
    /\ pst'.token = Append(pst.token, str[idx])
    /\ pst'.hasToken
    /\ pst'.inSingleQuotes = pst.inSingleQuotes
    /\ pst'.inDoubleQuotes = pst.inDoubleQuotes
    /\ argv' = argv

RECURSIVE Concat(_)
\* the tokens of a list written one after the other
Concat(tokens) == IF tokens = <<>> THEN <<>> ELSE Head(tokens) \o Concat(Tail(tokens))

\* how often the string holds the code point
CountIn(s, char) == Cardinality({k \in 1..Len(s) : s[k] = char})

\* the tokens a profile returned: env followed by argv
Returned == rv.env \o rv.argv

RECURSIVE Join(_)
\* strings.Join(tokens, " ")
Join(tokens) ==
    IF tokens = <<>> THEN <<>>
    ELSE IF Len(tokens) = 1 THEN tokens[1]
    ELSE tokens[1] \o <<" ">> \o Join(Tail(tokens))

\* the token holds no separator, no quote character, no shell metacharacter
\* and no backslash
Plain(token) ==
    \A k \in 1..Len(token) :
        token[k] \notin Whitespace \cup OutsideQuoteShellCharacters \cup {DQUOTE, SQUOTE, BACKSLASH}

----------------------------------------------------------------------------
(* The claims. *)

\* C1: every successful return of SplitLinux or SplitWindows carries an
\* argv list of at least one element.
C1_ArgvNeverEmpty ==
    (Done /\ api \in Profiles /\ rv.err = "nil") => (~rv.argvNil /\ Len(rv.argv) >= 1)

\* C2: ExtractEnvFromArgv returns as env the longest prefix of tokens that
\* all contain '=' and as rest the remaining suffix, so that env followed by
\* rest is the token list it was given.
C2_PrefixSuffixSplit ==
    (Done /\ api = "ExtractEnvFromArgv") =>
        /\ rv.env \o rv.argv = input
        /\ \A k \in 1..Len(rv.env) : ContainsEq(rv.env[k])
        /\ rv.argv # <<>> => ~ContainsEq(rv.argv[1])

\* C3: when the scan of SplitQuotes reaches the end of the input with a
\* quote still open, under the Ignore policy and any other options, the call
\* returns the unbalanced-quotes error and no tokens; a profile then returns
\* nil for env and for argv (with that error unless a shell character was
\* found first).
C3_UnbalancedQuotes ==
    /\ (Done /\ api = "SplitQuotes" /\ ~Selected(ReportingBits) /\ ScanReachedEnd /\ InQuotes)
          => rv = ReturnUnbalanced
    /\ (Done /\ api \in Profiles /\ ScanReachedEnd /\ InQuotes)
          => /\ rv.envNil /\ rv.argvNil
             /\ rv.err \in {"UnbalancedQuotesError", "ShellCharactersFoundError"}
             /\ pst.firstShellPos = -1 => rv.err = "UnbalancedQuotesError"

\* C3 witness: SplitQuotes, keeping quotes, ended inside double quotes with
\* tokens collected, and returned the error and no tokens.
C3_Witness ==
    /\ Done /\ api = "SplitQuotes" /\ ~Selected(ReportingBits) /\ Selected(SplitKeepQuotes)
    /\ ScanReachedEnd /\ pst.inDoubleQuotes /\ argv # <<>>
    /\ rv.err = "UnbalancedQuotesError" /\ rv.argvNil

\* C4: with neither Stop nor Continue selected, SplitQuotes returns a token
\* list and no error whenever the scan ends with no quote open, for every
\* separator set and every combination of the other options.
C4_IgnoreNeverFails ==
    (Done /\ api = "SplitQuotes" /\ ~Selected(ReportingBits) /\ ~InQuotes)
        => (ScanReachedEnd /\ rv.err = "nil" /\ ~rv.argvNil)

\* C4 witness: a string with a quote and a shell character, scanned with the
\* separators `;|`, came back as tokens without an error.
C4_Witness ==
    /\ Done /\ api = "SplitQuotes" /\ ~Selected(ReportingBits) /\ ~InQuotes
    /\ sep # Whitespace /\ Holds(str, "$") /\ Holds(str, DQUOTE)
    /\ rv.err = "nil" /\ rv.argv # <<>>

FirstShellIndex(s) ==
    CHOOSE k \in 1..Len(s) :
        /\ s[k] \in OutsideQuoteShellCharacters
        /\ \A j \in 1..(k - 1) : s[j] \notin OutsideQuoteShellCharacters

\* the tokens collected at the end of the scan, with the open one
FinalTokens == IF pst.hasToken THEN Append(argv, pst.token) ELSE argv

C9_ContinueSameTokensAsIgnore ==
    (Done /\ Selected(SplitContinueOnShellCharacters) /\ ~Selected(SplitStopOnShellCharacters)
          /\ ScanReachedEnd /\ ~InQuotes) =>
        LET ign == SplitQuotes(str, sep, <<WithIgnorePolicy(Option)>>)
        IN  /\ ign.err = "nil" /\ ~ign.argvNil
            /\ ~rv.argvNil /\ rv.argv = ign.argv
            /\ rv.err = IF pst.firstShellPos # -1 THEN "ShellCharactersFoundError" ELSE "nil"

\* C9 witness: tokens and the error came back together.
C9_Witness ==
    /\ Done /\ api = "SplitQuotes" /\ ContPolicy /\ ~Selected(SplitKeepSeparator)
    /\ str = <<"$", " ", "a">>
    /\ rv.err = "ShellCharactersFoundError" /\ ~rv.argvNil
    /\ rv.argv = << <<"$">>, <<"a">> >>
    /\ rv.argv = SplitQuotes(str, sep, <<WithIgnorePolicy(Option)>>).argv

\* C10, as claimed: the position recorded for a shell character, which
\* ShellCharactersFoundError carries, is the zero-based offset in code points
\* of the code point scanned.
C10_CodePointOffset ==
    [][ /\ (Scanning /\ pst.firstShellPos = -1 /\ pst'.firstShellPos # -1)
              => pst'.firstShellPos = idx - 1
        /\ (pc = "loop" /\ pc' = "done" /\ rv'.err = "ShellCharactersFoundError")
              => rv'.pos = pst'.firstShellPos ]_vars

\* C10, amended: the position is the zero-based offset in bytes, of the
\* UTF-8 encoding of the string passed to SplitQuotes, of the first code
\* point recorded as a shell character; it is not overwritten by later ones.
C10_ByteOffset ==
    [][ /\ (Scanning /\ pst.firstShellPos = -1 /\ pst'.firstShellPos # -1)
              => pst'.firstShellPos = Len(Bytes(SubSeq(str, 1, idx - 1)))
        /\ (pc = "loop" /\ pst.firstShellPos # -1) => pst'.firstShellPos = pst.firstShellPos
        /\ (pc = "loop" /\ pc' = "done" /\ rv'.err = "ShellCharactersFoundError")
              => (pst'.firstShellPos # -1 /\ rv'.pos = pst'.firstShellPos) ]_vars

\* C10 witness: a two-byte code point stands before the shell character,
\* whose offset is 1 in code points and 2 in bytes.
C10_Witness ==
    /\ Done /\ api = "SplitQuotes" /\ StopPolicy
    /\ str = <<NBSP, "$">>
    /\ rv = ReturnShell(2)

C12_UnquotedBackslashEscapes ==
    [][ /\ (AtBackslash /\ ~InQuotes /\ ~pst.keepBackSlash /\ ~pst.ignBackslashes)
              => /\ pst'.token = pst.token
                 /\ pst'.escaped
                 /\ ~InQuotes'
                 /\ argv' = argv
        /\ (AtEscaped /\ ~pst.keepBackSlash /\ ~pst.ignBackslashes)
              => (AppendsVerbatim /\ ~pst'.escaped /\ pc' = "loop") ]_vars

\* C12 witness: SplitLinux parsed `a\ a` (an escaped space) to one token.
C12_Witness ==
    /\ Done /\ api = "SplitLinux"
    /\ str = <<"a", BACKSLASH, " ", "a">>
    /\ rv.err = "nil" /\ rv.argv = << <<"a", " ", "a">> >>

\* the command line `\\ a`: two backslashes, a space and 'a'
EscapedBackslashLine == <<BACKSLASH, BACKSLASH, " ", "a">>

WindowsStep ==
    (api = "SplitWindows" /\ Examines) =>
        /\ ~pst.escaped /\ ~pst'.escaped
        /\ str[idx] = BACKSLASH => pst'.token = Append(pst.token, BACKSLASH)
        /\ (str[idx] = DQUOTE /\ ~pst.inSingleQuotes)
              => (pst'.inDoubleQuotes = ~pst.inDoubleQuotes /\ pst'.token = pst.token)
        /\ (str[idx] = SQUOTE /\ ~pst.inDoubleQuotes)
              => (pst'.inSingleQuotes = ~pst.inSingleQuotes /\ pst'.token = pst.token)
        /\ (str[idx] \in Whitespace /\ ~InQuotes /\ pst.hasToken)
              => (argv' = Append(argv, pst.token) /\ pst'.token = <<>>)

\* C14: in every successful return of SplitWindows the returned tokens hold
\* as many backslashes as the trimmed command line, and during the scan no
\* backslash escapes the code point behind it.
C14_WindowsKeepsBackslashes ==
    /\ [](  (Done /\ api = "SplitWindows" /\ rv.err = "nil")
              => CountIn(Concat(Returned), BACKSLASH) = CountIn(str, BACKSLASH) )
    /\ [][WindowsStep]_vars

\* C14 at the return of SplitQuotes to SplitWindows, before the split into
\* env and argv: the tokens SplitQuotes returns hold every backslash of the
\* trimmed command line, and during the scan no backslash escapes the code
\* point behind it.
C14_TokenizerKeepsBackslashes ==
    /\ [](  (pc = "returned" /\ api = "SplitWindows" /\ rv.err = "nil")
              => CountIn(Concat(rv.argv), BACKSLASH) = CountIn(str, BACKSLASH) )
    /\ [][WindowsStep]_vars

\* C14 witness: SplitWindows returned without error and without the token
\* `\=` the scan had collected.
C14_Witness ==
    /\ Done /\ api = "SplitWindows" /\ str = <<BACKSLASH, "=">>
    /\ FinalTokens = << <<BACKSLASH, "=">> >>
    /\ rv.err = "nil" /\ Returned = <<>>

\* every code point of the string is in the set
OnlyOf(s, set) == \A k \in 1..Len(s) : s[k] \in set

\* C15: called with the empty string or with a string of separator
\* characters only, SplitQuotes without keepSeparators returns the empty
\* token list and no error under every other option, and SplitLinux and
\* SplitWindows return no error, an empty env and the argv of one empty token.
C15_EmptyInput ==
    /\ (Done /\ api = "SplitQuotes" /\ ~Selected(SplitKeepSeparator) /\ OnlyOf(str, sep))
          => rv = ReturnArgv(<<>>)
    /\ (Done /\ api \in Profiles /\ OnlyOf(input, Whitespace))
          => /\ rv.err = "nil"
             /\ rv.env = <<>>
             /\ ~rv.argvNil /\ rv.argv = << <<>> >>

\* C15 witness: SplitLinux was called with two blanks and returned the one
\* empty token that pads the empty argv of SplitQuotes.
C15_Witness ==
    /\ Done /\ api = "SplitLinux" /\ input = <<" ", " ">>
    /\ str = <<>> /\ FinalTokens = <<>>
    /\ rv.err = "nil" /\ rv.env = <<>> /\ rv.argv = << <<>> >>

Wrapped(s) ==
    /\ Len(s) >= 2
    /\ s[1] \in {DQUOTE, SQUOTE}
    /\ s[Len(s)] = s[1]
    /\ \A k \in 2..(Len(s) - 1) : s[k] \notin {s[1], BACKSLASH}

\* the text between the first and the last code point of the string
Inner(s) == SubSeq(s, 2, Len(s) - 1)

\* C17: with keepQuotes unset and the Ignore policy, SplitQuotes of q t q,
\* where q is a quote character and the text t holds neither q nor a
\* backslash, returns exactly the one token t, for every separator set and
\* every other option, also when t holds separators or the other quote
\* character.
C17_QuoteWrapping ==
    (Done /\ api = "SplitQuotes" /\ ~Selected(SplitKeepQuotes) /\ ~Selected(ReportingBits)
          /\ Wrapped(str))
        => rv = ReturnArgv(<< Inner(str) >>)

\* C17 witness: a double-quoted text of a separator and a single quote came
\* back as one token, with the separators kept as tokens elsewhere.
C17_Witness ==
    /\ Done /\ api = "SplitQuotes" /\ sep = Whitespace
    /\ ~Selected(SplitKeepQuotes) /\ Selected(SplitKeepSeparator)
    /\ str = <<DQUOTE, " ", SQUOTE, DQUOTE>>
    /\ rv = ReturnArgv(<< <<" ", SQUOTE>> >>)

\* C18: with the options of SplitKeepAll selected, whenever SplitQuotes
\* returns without error, for either separator set, the returned tokens
\* written one after the other are the input string.
C18_KeepAllConcatenation ==
    (Done /\ api = "SplitQuotes" /\ BitAnd(Option, SplitKeepAll) = SplitKeepAll
          /\ rv.err = "nil")
        => (~rv.argvNil /\ Concat(rv.argv) = str)

\* C18 witness: a token, a separator and a backslash came back as three
\* tokens.
C18_Witness ==
    /\ Done /\ api = "SplitQuotes" /\ options = <<SplitKeepAll>>
    /\ str = <<"a", " ", BACKSLASH>>
    /\ rv = ReturnArgv(<< <<"a">>, <<" ">>, <<BACKSLASH>> >>)

\* how many tokens of the list are one separator character
SeparatorTokens(tokens, seps) ==
    Cardinality({k \in 1..Len(tokens) : Len(tokens[k]) = 1 /\ tokens[k][1] \in seps})

\* how many code points of the string are separator characters
SeparatorsIn(s, seps) == Cardinality({k \in 1..Len(s) : s[k] \in seps})

\* C19: with keepSeparators set, a step that scans a separator character
\* outside quotes and not escaped completes the open token, if there is one,
\* and appends the separator as a one-character token directly behind it;
\* of a string without quotes and backslashes, SplitQuotes under the Ignore
\* policy returns as many separator tokens as the string holds separators.
C19_KeepSeparators ==
    /\ [][ (Examines /\ pst.keepSep /\ ~pst.escaped /\ ~InQuotes
              /\ str[idx] \in sep \ {BACKSLASH, DQUOTE, SQUOTE})
            => /\ argv' = (IF pst.hasToken THEN Append(argv, pst.token) ELSE argv)
                              \o << <<str[idx]>> >>
               /\ pst'.token = <<>> /\ ~pst'.hasToken ]_vars
    /\ [](  (Done /\ api = "SplitQuotes" /\ Selected(SplitKeepSeparator)
                /\ ~Selected(ReportingBits)
                /\ ~Holds(str, DQUOTE) /\ ~Holds(str, SQUOTE) /\ ~Holds(str, BACKSLASH))
              => /\ rv.err = "nil"
                 /\ SeparatorTokens(rv.argv, sep) = SeparatorsIn(str, sep)
                 /\ Concat(rv.argv) = str )

\* C19 witness: a token and two separators in a row came back as the token
\* and two separator tokens.
C19_Witness ==
    /\ Done /\ api = "SplitQuotes" /\ Selected(SplitKeepSeparator) /\ sep = Whitespace
    /\ str = <<"|", " ", " ">>
    /\ rv = ReturnArgv(<< <<"|">>, <<" ">>, <<" ">> >>)

\* C20: of every token list, ExtractEnvFromArgv returns an env whose
\* elements all contain '=' and a rest whose first element, if there is one,
\* contains no '='; rest is empty when every token contains '=', and env is
\* empty when the first token contains none.  The env and argv a profile
\* returns obey the first two rules as well.
C20_EnvRestInvariants ==
    /\ (Done /\ api = "ExtractEnvFromArgv") =>
          /\ \A k \in 1..Len(rv.env) : ContainsEq(rv.env[k])
          /\ rv.argv # <<>> => ~ContainsEq(rv.argv[1])
          /\ (\A k \in 1..Len(input) : ContainsEq(input[k])) => rv.argv = <<>>
          /\ (input # <<>> /\ ~ContainsEq(input[1])) => rv.env = <<>>
    /\ (Done /\ api \in Profiles /\ rv.err = "nil") =>
          /\ \A k \in 1..Len(rv.env) : ContainsEq(rv.env[k])
          /\ rv.argv # <<>> => ~ContainsEq(rv.argv[1])

\* C20 witness: of three tokens the first went to env and the rest, whose
\* second token contains '=', to rest.
C20_Witness ==
    /\ Done /\ api = "ExtractEnvFromArgv"
    /\ input = << <<"=">>, <<"a">>, <<"=">> >>
    /\ rv.env = << <<"=">> >> /\ rv.argv = << <<"a">>, <<"=">> >>

Returns == {"nil", "UnbalancedQuotesError", "ShellCharactersFoundError"}

\* C22: every call of SplitQuotes ends by returning a token list,
\* UnbalancedQuotesError or ShellCharactersFoundError and in no other way;
\* each step of the scan either goes on to the next code point or ends the
\* call, so that every code point is visited at most once, from left to
\* right, and the scan ends after at most as many steps as the input has
\* code points.
C22_ReturnsOneOfThreeOutcomes ==
    /\ [](  /\ (Done /\ api = "SplitQuotes") => rv.err \in Returns
            /\ pc = "loop" => (idx >= 1 /\ idx <= Len(str) + 1) )
    /\ [][ Scanning => \/ (pc' = "loop" /\ idx' = idx + 1)
                       \/ (pc' # "loop" /\ idx' = idx) ]_vars

\* C22 witness: the call of SplitQuotes with a double quote and a backslash
\* ended in a run-time panic at the second code point.
C22_Witness ==
    /\ Done /\ api = "SplitQuotes" /\ options = <<>>
    /\ str = <<DQUOTE, BACKSLASH>> /\ idx = 2
    /\ rv = Panic

\* C23: with ignoreBackslashEscaping set, with or without keepBackslashes,
\* escape-pending is never set, and a step that scans a backslash, in any
\* quote mode, appends the backslash to the open token and changes no quote
\* mode.
C23_IgnoredBackslashIsLiteral ==
    /\ [](pst.ignBackslashes => ~pst.escaped)
    /\ [][ (Examines /\ pst.ignBackslashes /\ str[idx] = BACKSLASH)
            => (AppendsVerbatim /\ pc' = "loop") ]_vars

\* C23 witness: with SplitIgnoreBackslashes alone, the backslash of `a\a` is
\* in no token.
C23_Witness ==
    /\ Done /\ api = "SplitQuotes" /\ options = <<SplitIgnoreBackslashes>>
    /\ str = <<"a", BACKSLASH, "a">>
    /\ rv = ReturnArgv(<< <<"a", "a">> >>)

\* the policy flags that are set in a parse state
ActivePolicies(p) ==
    {f \in {"stopShell", "contShell", "ignShell"} :
        \/ f = "stopShell" /\ p.stopShell
        \/ f = "contShell" /\ p.contShell
        \/ f = "ignShell" /\ p.ignShell}

\* the three option bits that select a policy
PolicyBits == BitOr(ReportingBits, SplitIgnoreShellCharacters)

\* the option value with, of the policy bits selected, only the one that
\* decides: Ignore before Stop before Continue
DecidingPolicy(option) ==
    LET others == option - BitAnd(option, PolicyBits)
    IN  IF BitAnd(option, SplitIgnoreShellCharacters) > 0
        THEN BitOr(others, SplitIgnoreShellCharacters)
        ELSE IF BitAnd(option, SplitStopOnShellCharacters) > 0
        THEN BitOr(others, SplitStopOnShellCharacters)
        ELSE IF BitAnd(option, SplitContinueOnShellCharacters) > 0
        THEN BitOr(others, SplitContinueOnShellCharacters)
        ELSE others

\* C24, as claimed: in the parse state of every call of SplitQuotes exactly
\* one of the three policies is active, and it is Ignore when no policy
\* option is selected.
C24_ExactlyOnePolicy ==
    api = "SplitQuotes" =>
        /\ Cardinality(ActivePolicies(pst)) = 1
        /\ ~Selected(PolicyBits) => pst.ignShell

\* C24, amended: at least one policy flag is set, exactly the Ignore flag
\* when no policy option is selected and exactly the selected one when one
\* policy option is selected; when several are selected, several flags are
\* set and the call returns what it returns with only the deciding one
\* selected: Ignore before Stop before Continue.
C24_OneDecidingPolicy ==
    api = "SplitQuotes" =>
        /\ ActivePolicies(pst) # {}
        /\ ~Selected(PolicyBits) => ActivePolicies(pst) = {"ignShell"}
        /\ BitAnd(Option, PolicyBits) = SplitStopOnShellCharacters
              => ActivePolicies(pst) = {"stopShell"}
        /\ BitAnd(Option, PolicyBits) = SplitContinueOnShellCharacters
              => ActivePolicies(pst) = {"contShell"}
        /\ BitAnd(Option, PolicyBits) = SplitIgnoreShellCharacters
              => ActivePolicies(pst) = {"ignShell"}
        /\ Cardinality(ActivePolicies(newParseState(<<DecidingPolicy(Option)>>))) = 1
        /\ Done => rv = SplitQuotes(str, sep, <<DecidingPolicy(Option)>>)

\* C24 witness: with Stop and Continue both selected, both flags are set
\* and the call stopped at the shell character as under Stop.
C24_Witness ==
    /\ Done /\ api = "SplitQuotes" /\ sep = Whitespace
    /\ BitAnd(Option, PolicyBits) = ReportingBits
    /\ ActivePolicies(pst) = {"stopShell", "contShell"}
    /\ str = <<"|", " ">> /\ idx = 2
    /\ rv = ReturnShell(0)

\* C25: in no state of a scan are single-quote mode and double-quote mode
\* both active, and a step that scans a double quote in single-quote mode or
\* a single quote in double-quote mode appends it to the open token and
\* changes neither mode.
C25_QuoteModesExclusive ==
    /\ [](~(pst.inSingleQuotes /\ pst.inDoubleQuotes))
    /\ [][ (Examines /\ ( (str[idx] = DQUOTE /\ pst.inSingleQuotes)
                          \/ (str[idx] = SQUOTE /\ pst.inDoubleQuotes) ))
            => (AppendsVerbatim /\ pc' = "loop") ]_vars

\* C25 witness: the scan stands behind a double quote seen in single-quote
\* mode, which is in the token, with single-quote mode still active.
C25_Witness ==
    /\ pc = "loop" /\ idx = 3 /\ ~pst.keepQuote
    /\ str[1] = SQUOTE /\ str[2] = DQUOTE
    /\ pst.inSingleQuotes /\ ~pst.inDoubleQuotes /\ pst.token = <<DQUOTE>>

\* the position the running step would record if none were recorded yet, or
\* -1 if it detects no shell character
DetectedNow ==
    LoopBody([pst EXCEPT !.firstShellPos = -1], argv, str, sep, idx).pst.firstShellPos

\* C26: during a scan the recorded position changes at most once: a step
\* with no position recorded records the position of the shell character it
\* detects, if any; a step with a position recorded keeps it, and what it
\* detects lies behind the recorded position; under Continue the error
\* returned carries the recorded position, the smallest one detected.
C26_FirstShellPosSetOnce ==
    /\ [][ Scanning =>
             /\ pst.firstShellPos = -1 => pst'.firstShellPos = DetectedNow
             /\ pst.firstShellPos # -1 =>
                   /\ pst'.firstShellPos = pst.firstShellPos
                   /\ DetectedNow = -1 \/ DetectedNow > pst.firstShellPos ]_vars
    /\ [](  (Done /\ ContPolicy /\ rv.err = "ShellCharactersFoundError")
              => (rv.pos = pst.firstShellPos /\ rv.pos >= 0) )

\* C26 witness: three shell characters in a row under Continue; the error
\* carries the position of the first.
C26_Witness ==
    /\ Done /\ api = "SplitQuotes" /\ ContPolicy
    /\ str = <<"$", "|", "$">>
    /\ rv = ReturnArgvShell(<< <<"$", "|", "$">> >>, 0)

\* the first string is a prefix of the second
IsPrefix(s, t) == Len(s) <= Len(t) /\ SubSeq(t, 1, Len(s)) = s

\* C27: without keepSeparators and keepQuotes, a step of the scan completes
\* a token only when it scans a separator outside quotes that is not
\* escaped, and then it completes the open token; every other step, a quote
\* that opens or closes a quote mode included, leaves the completed tokens
\* alone and only adds to the open token; so a string without any separator
\* comes back as at most one token.
C27_SplitOnlyAtSeparators ==
    /\ [][ (Scanning /\ ~pst.keepSep /\ ~pst.keepQuote) =>
             /\ argv' # argv =>
                   /\ str[idx] \in sep /\ ~pst.escaped /\ ~InQuotes /\ pst.hasToken
                   /\ argv' = Append(argv, pst.token)
             /\ argv' = argv => IsPrefix(pst.token, pst'.token) ]_vars
    /\ [](  (Done /\ api = "SplitQuotes" /\ ~Selected(SplitKeepSeparator)
                /\ ~Selected(SplitKeepQuotes) /\ rv.err = "nil"
                /\ \A k \in 1..Len(str) : str[k] \notin sep)
              => Len(rv.argv) <= 1 )

\* C27 witness: a""a came back as the one token aa.
C27_Witness ==
    /\ Done /\ api = "SplitQuotes"
    /\ ~Selected(SplitKeepSeparator) /\ ~Selected(SplitKeepQuotes)
    /\ str = <<"a", DQUOTE, DQUOTE, "a">>
    /\ rv = ReturnArgv(<< <<"a", "a">> >>)

RECURSIVE EmptyPairs(_)
\* the string is a row of empty quote pairs: '' or ""
EmptyPairs(s) ==
    \/ s = <<>>
    \/ /\ Len(s) >= 2
       /\ s[1] \in {DQUOTE, SQUOTE}
       /\ s[2] = s[1]
       /\ EmptyPairs(SubSeq(s, 3, Len(s)))

RECURSIVE Words(_, _, _)
\* the words of the string: the longest runs of code points that are not
\* separators; word is the run that is open
Words(s, seps, word) ==
    IF s = <<>> THEN (IF word = <<>> THEN <<>> ELSE <<word>>)
    ELSE IF Head(s) \in seps
    THEN (IF word = <<>> THEN <<>> ELSE <<word>>) \o Words(Tail(s), seps, <<>>)
    ELSE Words(Tail(s), seps, Append(word, Head(s)))

\* the token is no separator kept as a token
NoSeparatorToken(token) == ~(Len(token) = 1 /\ token[1] \in sep)

\* C28: without keepQuotes and under the Ignore policy, of a string whose
\* words are rows of empty quote pairs SplitQuotes returns one empty token
\* for each word (next to the separator tokens, if separators are kept), and
\* so no token for a string of separators only.
C28_EmptyQuotePairs ==
    (Done /\ api = "SplitQuotes" /\ ~Selected(SplitKeepQuotes) /\ ~Selected(ReportingBits)
          /\ \A k \in 1..Len(Words(str, sep, <<>>)) : EmptyPairs(Words(str, sep, <<>>)[k]))
        => /\ rv.err = "nil"
           /\ SelectSeq(rv.argv, NoSeparatorToken)
                 = [k \in 1..Len(Words(str, sep, <<>>)) |-> <<>>]
           /\ ~Selected(SplitKeepSeparator) => Len(rv.argv) = Len(Words(str, sep, <<>>))

\* C28 witness: the word ''"" came back as one empty token.
C28_Witness ==
    /\ Done /\ api = "SplitQuotes" /\ sep = Whitespace
    /\ ~Selected(SplitKeepQuotes) /\ ~Selected(SplitKeepSeparator)
    /\ str = <<SQUOTE, SQUOTE, DQUOTE, DQUOTE>>
    /\ rv = ReturnArgv(<< <<>> >>)

\* C29: appending an element to the env list that ExtractEnvFromArgv,
\* SplitLinux or SplitWindows returned leaves every element of the returned
\* argv list unchanged.
C29_AppendToEnvLeavesArgv ==
    [][ (pc = "done" /\ pc' = "appended") => rv'.argv = rv.argv ]_vars

\* C29 case: SplitLinux("a a") returned env [] and argv ["a", "a"]; after
\* env = append(env, "=") the argv list reads ["=", "a"].
C29_Witness ==
    /\ pc = "appended" /\ api = "SplitLinux"
    /\ input = <<"a", " ", "a">>
    /\ rv.env = << <<"=">> >>
    /\ rv.argv = << <<"=">>, <<"a">> >>

\* the code point is a shell character where the parse state stands
ShellCharacterHere(char) ==
    IF pst.inDoubleQuotes
    THEN char \in DoubleQuoteShellCharacters
    ELSE char \in OutsideQuoteShellCharacters

\* C30: when shell characters are looked for (Stop or Continue decides), a
\* step that scans an escaped shell character outside single quotes, with
\* none recorded before, records it at its own byte offset; and a recorded
\* position is the one of the ShellCharactersFoundError the call returns:
\* always under Stop, and under Continue when the quotes are balanced and
\* the scan did not panic.
C30_EscapedShellCharacterDetected ==
    /\ [][ (AtEscaped /\ ~pst.ignShell /\ ~pst.inSingleQuotes
                /\ pst.firstShellPos = -1 /\ ShellCharacterHere(str[idx]))
             => pst'.firstShellPos = BytePos(str, idx) ]_vars
    /\ [](  (Done /\ api = "SplitQuotes" /\ pst.firstShellPos # -1
                /\ (pst.stopShell \/ (~InQuotes /\ rv.err # "panic")))
              => (rv.err = "ShellCharactersFoundError" /\ rv.pos = pst.firstShellPos) )

\* C30 witness: under Stop, the escaped $ inside double quotes of "\$ is
\* reported at byte offset 2.
C30_Witness ==
    /\ Done /\ api = "SplitQuotes" /\ StopPolicy
    /\ ~Selected(SplitIgnoreBackslashes) /\ ~Selected(SplitKeepBackslashes)
    /\ str = <<DQUOTE, BACKSLASH, "$">>
    /\ rv = ReturnShell(2)

RECURSIVE TrailingBackslashes(_)
\* the number of backslashes the string ends with
TrailingBackslashes(s) ==
    IF s # <<>> /\ s[Len(s)] = BACKSLASH
    THEN 1 + TrailingBackslashes(SubSeq(s, 1, Len(s) - 1))
    ELSE 0

\* the string is a single quote, a text, a backslash and a single quote
QuoteTextBackslashQuote(s) ==
    /\ Len(s) >= 3
    /\ s[1] = SQUOTE
    /\ s[Len(s) - 1] = BACKSLASH
    /\ s[Len(s)] = SQUOTE

\* the text of such a string
QuotedText(s) == SubSeq(s, 2, Len(s) - 2)

\* inside single quotes, unless backslashes are ignored, a step that takes
\* a backslash as such keeps it in the token and sets the escape, and the
\* step behind it appends its code point and leaves the quote open
SingleQuoteBackslashSteps ==
    [][ /\ (AtBackslash /\ pst.inSingleQuotes /\ ~pst.ignBackslashes)
            => /\ pst'.escaped /\ pst'.inSingleQuotes
               /\ pst'.token = Append(pst.token, BACKSLASH)
        /\ (AtEscaped /\ pst.inSingleQuotes)
            => /\ ~pst'.escaped /\ pst'.inSingleQuotes
               /\ pst'.token = Append(pst.token, str[idx]) ]_vars

\* C31, as stated: inside single quotes a backslash is kept and escapes the
\* code point behind it, and every string made of a single quote, a text, a
\* backslash and a single quote fails with the unbalanced-quotes error.
C31_BackslashBeforeClosingQuote ==
    /\ SingleQuoteBackslashSteps
    /\ [](  (Done /\ api = "SplitQuotes" /\ ~Selected(SplitIgnoreBackslashes)
                /\ QuoteTextBackslashQuote(str))
              => rv = ReturnUnbalanced )

\* C31, amended: the same, for the strings whose text holds no single quote
\* and ends with an even number of backslashes, so that the backslash in
\* front of the last quote is not escaped itself.
C31_UnescapedBackslashBeforeClosingQuote ==
    /\ SingleQuoteBackslashSteps
    /\ [](  (Done /\ api = "SplitQuotes" /\ ~Selected(SplitIgnoreBackslashes)
                /\ QuoteTextBackslashQuote(str)
                /\ ~Holds(QuotedText(str), SQUOTE)
                /\ TrailingBackslashes(QuotedText(str)) % 2 = 0)
              => rv = ReturnUnbalanced )

\* C31 witness: 'a\' with no options ended inside single quotes and failed
\* with the unbalanced-quotes error.
C31_Witness ==
    /\ Done /\ api = "SplitQuotes" /\ options = <<>>
    /\ str = <<SQUOTE, "a", BACKSLASH, SQUOTE>>
    /\ pst.inSingleQuotes /\ pst.token = <<"a", BACKSLASH, SQUOTE>>
    /\ rv = ReturnUnbalanced

\* the scan ran to the end of the string and its last code point was taken
\* as a backslash outside quotes that escapes what comes next
DanglingBackslash ==
    /\ ScanReachedEnd /\ str # <<>>
    /\ pst.escaped /\ ~InQuotes

\* C32: without keepBackslashes and ignoreBackslashEscaping, a step that
\* takes a backslash outside quotes writes nothing to the token, opens no
\* token and records no shell character; so a call whose string ends with
\* such a backslash returns what it returns for the string without it,
\* with no error under the Ignore policy, and a lone backslash comes back
\* as an empty token list.
C32_DanglingBackslashAccepted ==
    /\ [][ (AtBackslash /\ ~InQuotes /\ ~pst.keepBackSlash /\ ~pst.ignBackslashes)
             => /\ pst' = [pst EXCEPT !.escaped = TRUE]
                /\ argv' = argv ]_vars
    /\ [](  (Done /\ api = "SplitQuotes" /\ DanglingBackslash
                /\ ~Selected(SplitKeepBackslashes) /\ ~Selected(SplitIgnoreBackslashes))
              => /\ rv = SplitQuotes(SubSeq(str, 1, Len(str) - 1), sep, options)
                 /\ pst.ignShell => rv.err = "nil"
                 /\ str = <<BACKSLASH>> => rv = ReturnArgv(<<>>) )

\* C32 witness: a lone backslash with no options came back as an empty
\* token list, the escape still pending.
C32_Witness ==
    /\ Done /\ api = "SplitQuotes" /\ options = <<>>
    /\ str = <<BACKSLASH>>
    /\ pst.escaped /\ ~pst.hasToken
    /\ rv = ReturnArgv(<<>>)

\* the two outcomes are the same: the same lists when both are without
\* error, the same kind of error otherwise
SameOutcome(r1, r2) ==
    /\ r1.err = r2.err
    /\ r1.err = "nil" =>
          /\ r1.env = r2.env /\ r1.envNil = r2.envNil
          /\ r1.argv = r2.argv /\ r1.argvNil = r2.argvNil

\* what SplitLinux would return if it did not trim its argument
SplitLinuxUntrimmed(s) == ProfileTail(SplitQuotes(s, Whitespace, LinuxOptions))

\* C33: SplitLinux returns the outcome that tokenizing its untrimmed
\* argument with the white-space separators under Stop, padding an empty
\* result and applying ExtractEnvFromArgv returns.
C33_TrimmingTransparent ==
    (Done /\ api = "SplitLinux") => SameOutcome(rv, SplitLinuxUntrimmed(input))

\* C33 case: SplitLinux of a, backslash, blank returned the token a, while
\* the untrimmed string tokenizes to the token a followed by a blank.
C33_Witness ==
    /\ Done /\ api = "SplitLinux"
    /\ input = <<"a", BACKSLASH, " ">>
    /\ rv.err = "nil" /\ rv.argv = << <<"a">> >>
    /\ SplitLinuxUntrimmed(input).err = "nil"
    /\ SplitLinuxUntrimmed(input).argv = << <<"a", " ">> >>

RECURSIVE IsSubsequence(_, _)
\* the code points of s are code points of t, in the order of t, each
\* taken at most once
IsSubsequence(s, t) ==
    IF s = <<>> THEN TRUE
    ELSE IF t = <<>> THEN FALSE
    ELSE IF Head(s) = Head(t) THEN IsSubsequence(Tail(s), Tail(t))
    ELSE IsSubsequence(s, Tail(t))

\* what the scan has written so far: the completed tokens and the open one
Written(tokens, p) == Concat(tokens) \o p.token

\* C34: every step of the scan writes nothing or the one code point it
\* scans, behind what is written already; so the code points of the tokens
\* SplitQuotes returns, read in token order, are a subsequence of the code
\* points of its string.
C34_TokensAreSubsequence ==
    /\ [][ Scanning =>
             \/ Written(argv', pst') = Written(argv, pst)
             \/ Written(argv', pst') = Append(Written(argv, pst), str[idx]) ]_vars
    /\ [](  pc = "loop" => IsSubsequence(Written(argv, pst), SubSeq(str, 1, idx - 1)) )
    /\ [](  (Done /\ api = "SplitQuotes" /\ ~rv.argvNil)
              => IsSubsequence(Concat(rv.argv), str) )

\* C34 witness: of a quoted, escaped double quote, with the quotes kept,
\* every code point but the escaping backslash came back, in the order of
\* the string.
C34_Witness ==
    /\ Done /\ api = "SplitQuotes" /\ options = <<SplitKeepQuotes>>
    /\ str = <<DQUOTE, BACKSLASH, DQUOTE, DQUOTE>>
    /\ rv = ReturnArgv(<< <<DQUOTE, DQUOTE, DQUOTE>> >>)

====
